---- MODULE Spec2Model ----
(***************************************************************************)
(* Model of jupyter2repo/setup.py: the packaging call followed by the      *)
(* settings writer that stores GH_APP_ID and GH_APP_URL as                 *)
(* <config-root>/lab/user-settings/jupyter2repo/plugin.json.               *)
(*                                                                         *)
(* Text (file contents, JSON output, environment strings) is a sequence of *)
(* one-character strings.  A path is a sequence of path segments.  The     *)
(* filesystem is a function from the paths that exist to their nodes.      *)
(***************************************************************************)
EXTENDS Integers, Sequences, FiniteSets, TLC

VARIABLES
    fs,        \* the filesystem: path -> directory or file node
    searchable,\* whether the process may look up entries below the config root
    pc,        \* per invocation: the statement it is at
    environ,   \* per invocation: os.environ
    locals,    \* per invocation: settings_path, settings_data, f, raised
    fs0        \* history: the filesystem as the latest invocation found it

vars == <<fs, searchable, pc, environ, locals, fs0>>

(* ------------------------------- bounds -------------------------------- *)

\* longest environment string
MaxLen == 1

\* most characters a failing write stores before its error
MaxShortWrite == 2

\* the two invocations of the concurrent scenario
Writers == {"w1", "w2"}

\* the process slot that runs that do not overlap take one after another
\* (which of the two slots makes no difference)
Sequential == {"w1"}

\* characters an environment string is made of: a plain one and one that
\* the JSON encoder escapes
Alphabet == {"a", "\""}

RECURSIVE StringsOfLen(_)
StringsOfLen(n) ==
    IF n = 0 THEN {<<>>}
    ELSE {Append(s, c) : s \in StringsOfLen(n - 1), c \in Alphabet}

Strings == UNION {StringsOfLen(n) : n \in 0..MaxLen}

(* --------------------------- Python values ----------------------------- *)

None == [type |-> "None"]
Str(s) == [type |-> "str", s |-> s]

\* names of environment variables and JSON keys, as text
Chars(name) ==
    CASE name = "GH_APP_ID"  -> <<"G","H","_","A","P","P","_","I","D">>
      [] name = "GH_APP_URL" -> <<"G","H","_","A","P","P","_","U","R","L">>
      [] name = "HOME"       -> <<"H","O","M","E">>
      [] name = "theme"      -> <<"t","h","e","m","e">>

\* os.environ.get(name, ""): an unset variable reads as the empty string
EnvironGetOrEmpty(e, name) == IF name \in DOMAIN e THEN Str(e[name]) ELSE Str(<<>>)

\* os.environ.get(name): the string, or None when the variable is unset
EnvironGet(e, name) == IF name \in DOMAIN e THEN Str(e[name]) ELSE None

\* the environments an invocation may run in: HOME is always set, each of
\* the two variables is unset or set to a string
Environs ==
    UNION {
        {[n \in D \cup {"HOME"} |-> IF n = "HOME" THEN <<"a">> ELSE g[n]] :
            g \in [D -> Strings]} :
        D \in SUBSET {"GH_APP_ID", "GH_APP_URL"} }

(* ------------------------------ json.dump ------------------------------ *)

\* json.encoder.py_encode_basestring_ascii on one character
EscapeChar(c) ==
    CASE c = "\"" -> <<"\\", "\"">>
      [] c = "\\" -> <<"\\", "\\">>
      [] c = "\n" -> <<"\\", "n">>
      [] OTHER    -> <<c>>

RECURSIVE Escape(_)
Escape(s) == IF s = <<>> THEN <<>> ELSE EscapeChar(Head(s)) \o Escape(Tail(s))

EncodeStr(s) == <<"\"">> \o Escape(s) \o <<"\"">>

EncodeValue(v) ==
    IF v.type = "None" THEN <<"n","u","l","l">> ELSE EncodeStr(v.s)

\* a dict is a sequence of <<key, value>> pairs in insertion order
RECURSIVE EncodeItems(_, _)
EncodeItems(d, i) ==
    IF i > Len(d) THEN <<>>
    ELSE (IF i = 1 THEN <<>> ELSE <<",", "\n", " ", " ">>)
         \o EncodeStr(d[i][1]) \o <<":", " ">> \o EncodeValue(d[i][2])
         \o EncodeItems(d, i + 1)

\* the text json.dump(d, f, indent=2) writes
JsonDumps(d) ==
    IF d = <<>> THEN <<"{", "}">>
    ELSE <<"{", "\n", " ", " ">> \o EncodeItems(d, 1) \o <<"\n", "}">>

(* ---------------------- json.load (the reader) ------------------------- *)

Invalid == [ok |-> FALSE]

IsWs(c) == c \in {" ", "\n"}

RECURSIVE SkipWs(_, _)
SkipWs(t, i) == IF i <= Len(t) /\ IsWs(t[i]) THEN SkipWs(t, i + 1) ELSE i

\* scan the body of a string literal from position i (after the opening
\* quote): the decoded string and the position after the closing quote
RECURSIVE ScanString(_, _, _)
ScanString(t, i, acc) ==
    IF i > Len(t) THEN Invalid
    ELSE IF t[i] = "\"" THEN [ok |-> TRUE, val |-> acc, next |-> i + 1]
    ELSE IF t[i] = "\n" THEN Invalid
    ELSE IF t[i] = "\\" THEN
        IF i + 1 > Len(t) THEN Invalid
        ELSE IF t[i + 1] \in {"\"", "\\"} THEN ScanString(t, i + 2, Append(acc, t[i + 1]))
        ELSE IF t[i + 1] = "n" THEN ScanString(t, i + 2, Append(acc, "\n"))
        ELSE Invalid
    ELSE ScanString(t, i + 1, Append(acc, t[i]))

ParseString(t, i) ==
    IF i <= Len(t) /\ t[i] = "\"" THEN ScanString(t, i + 1, <<>>) ELSE Invalid

ParseValue(t, i) ==
    IF i + 3 <= Len(t) /\ SubSeq(t, i, i + 3) = <<"n","u","l","l">>
    THEN [ok |-> TRUE, val |-> None, next |-> i + 4]
    ELSE LET r == ParseString(t, i)
         IN IF r.ok THEN [ok |-> TRUE, val |-> Str(r.val), next |-> r.next]
            ELSE Invalid

\* members of an object from position i (at a key), collected in acc
RECURSIVE ParseMembers(_, _, _)
ParseMembers(t, i, acc) ==
    LET k == ParseString(t, i)
    IN IF ~k.ok THEN Invalid
       ELSE LET c == SkipWs(t, k.next)
            IN IF c > Len(t) \/ t[c] # ":" THEN Invalid
               ELSE LET v == ParseValue(t, SkipWs(t, c + 1))
                    IN IF ~v.ok THEN Invalid
                       ELSE LET e   == SkipWs(t, v.next)
                                got == Append(acc, <<k.val, v.val>>)
                            IN IF e > Len(t) THEN Invalid
                               ELSE IF t[e] = "}"
                               THEN [ok |-> TRUE, val |-> got, next |-> e + 1]
                               ELSE IF t[e] = ","
                               THEN ParseMembers(t, SkipWs(t, e + 1), got)
                               ELSE Invalid

\* the pairs of a JSON object text, or Invalid
ParsePairs(t) ==
    LET b == SkipWs(t, 1)
    IN IF b > Len(t) \/ t[b] # "{" THEN Invalid
       ELSE LET m == SkipWs(t, b + 1)
                r == IF m <= Len(t) /\ t[m] = "}"
                     THEN [ok |-> TRUE, val |-> <<>>, next |-> m + 1]
                     ELSE ParseMembers(t, m, <<>>)
            IN IF r.ok /\ SkipWs(t, r.next) = Len(t) + 1 THEN r ELSE Invalid

\* a sequence of pairs as a mapping; a repeated key keeps its last value
AsMapping(d) ==
    [k \in {d[i][1] : i \in DOMAIN d} |->
        d[CHOOSE i \in DOMAIN d :
            d[i][1] = k /\ \A j \in DOMAIN d : d[j][1] = k => j <= i][2]]

\* json.load of a file's text: [ok |-> TRUE, val |-> the mapping] or Invalid
JsonLoads(t) ==
    LET r == ParsePairs(t)
    IN IF r.ok THEN [ok |-> TRUE, val |-> AsMapping(r.val)] ELSE Invalid

(* ----------------------------- filesystem ------------------------------ *)

Dir == [type |-> "dir"]
File(c) == [type |-> "file", content |-> c]

Prefix(p, i) == SubSeq(p, 1, i)
Dirname(p) == Prefix(p, Len(p) - 1)
IsUnder(p, d) == Len(p) > Len(d) /\ Prefix(p, Len(d)) = d

PLUGIN_ID == "jupyter2repo"

\* jupyter_config_dir(): the host's configuration root (it is not created)
config_dir == <<"home", ".jupyter">>

\* os.path.join(config_dir, "lab", "user-settings", "plugin.json")
SettingsPathWithoutPlugin(root) == root \o <<"lab", "user-settings", "plugin.json">>

\* os.path.join(config_dir, "lab", "user-settings", PLUGIN_ID, "plugin.json")
SettingsPath(root) == root \o <<"lab", "user-settings", PLUGIN_ID, "plugin.json">>

\* a lookup of p succeeds only if every directory above it may be searched
Accessible(p) == searchable \/ ~IsUnder(p, config_dir)

\* os.path.exists / os.path.isdir: False when stat fails
PathExists(p) == p \in DOMAIN fs /\ Accessible(p)
IsDir(p) == PathExists(p) /\ fs[p].type = "dir"

\* the file's text after writing buf at offset pos (bytes beyond stay)
WriteAt(content, pos, buf) ==
    LET n == IF Len(content) > pos + Len(buf) THEN Len(content) ELSE pos + Len(buf)
    IN [i \in 1..n |->
            IF i > pos /\ i <= pos + Len(buf) THEN buf[i - pos] ELSE content[i]]

(* --------------------------- initial states ---------------------------- *)

\* a settings file left by the host: another key and longer values
PriorSettings ==
    JsonDumps(<< <<Chars("theme"), Str(<<"a","a","a","a","a","a">>)>>,
                 <<Chars("GH_APP_ID"), Str(<<"a","a","a">>)>>,
                 <<Chars("GH_APP_URL"), Str(<<"a","a","a">>)>> >>)

OtherFile == config_dir \o <<"jupyter_config.json">>

Tree(dirs, files) ==
    [p \in dirs \cup DOMAIN files |-> IF p \in dirs THEN Dir ELSE File(files[p])]

\* where the host keeps this plugin's settings
SettingsFile == config_dir \o <<"lab", "user-settings", "jupyter2repo", "plugin.json">>

\* the trees an invocation may find
InitialTrees ==
    LET r     == Len(config_dir)
        other == [p \in {OtherFile} |-> <<"{", "}">>]
        with(p, c) == [q \in {OtherFile, p} |-> IF q = p THEN c ELSE other[OtherFile]]
    IN    \* the configuration root is missing, with or without its parent
          {Tree({Prefix(SettingsFile, i) : i \in 0..n}, <<>>) : n \in 0..(r - 1)}
          \* the root and the first n directories below it are present
     \cup {Tree({Prefix(SettingsFile, i) : i \in 0..(r + n)}, other) : n \in 0..3}
          \* the settings file is present
     \cup {Tree({Prefix(SettingsFile, i) : i \in 0..(r + 3)}, with(SettingsFile, PriorSettings))}
          \* "lab" is a regular file
     \cup {Tree({Prefix(SettingsFile, i) : i \in 0..r}, with(Prefix(SettingsFile, r + 1), <<>>))}
          \* "plugin.json" is a directory
     \cup {Tree({Prefix(SettingsFile, i) : i \in 0..(r + 4)}, other)}

NoFile == [state |-> "unbound", path |-> <<>>, pos |-> 0, buffer |-> <<>>]

NoLocals ==
    [settings_path |-> <<>>, settings_data |-> <<>>, f |-> NoFile, raised |-> ""]

Init ==
    /\ fs \in InitialTrees
    /\ searchable \in {s \in BOOLEAN : s \/ config_dir \in DOMAIN fs}
    /\ pc = [w \in Writers |-> "idle"]
    /\ environ = [w \in Writers |-> [n \in {"HOME"} |-> <<"a">>]]
    /\ locals = [w \in Writers |-> NoLocals]
    /\ fs0 = fs

(* ------------------------------- steps --------------------------------- *)

Terminal == {"done", "aborted"}

Goto(w, label) == pc' = [pc EXCEPT ![w] = label]

\* the failing statement sits in a retry loop: the exception is caught and
\* the statement attempted again
RaiseAndRetry(w, what) ==
    /\ pc' = pc
    /\ locals' = [locals EXCEPT ![w].raised = what]

\* an uncaught exception: the interpreter exits with a non-zero status
Raise(w, what) ==
    /\ pc' = [pc EXCEPT ![w] = "aborted"]
    /\ locals' = [locals EXCEPT ![w].raised = what]

Start(w) ==
    /\ pc' = [pc EXCEPT ![w] = "setup"]
    /\ \E e \in Environs : environ' = [environ EXCEPT ![w] = e]
    /\ locals' = [locals EXCEPT ![w] = NoLocals]
    /\ fs0' = fs
    /\ UNCHANGED <<fs, searchable>>

\* one installation run after another
Invoke(w) ==
    /\ w \in Sequential
    /\ pc[w] \in {"idle"} \cup Terminal
    /\ \A v \in Writers \ {w} : pc[v] = "idle"
    /\ Start(w)

\* a single installation run
InvokeOnce(w) ==
    /\ \A v \in Writers : pc[v] = "idle"
    /\ Start(w)

\* two installation runs at the same time
InvokeConcurrently(w) ==
    /\ pc[w] = "idle"
    /\ Start(w)

\* try: setup() / except: pass -- the writer runs although setup() failed
SetupFailureIgnored(w) ==
    /\ pc[w] = "setup"
    /\ Goto(w, "path")
    /\ \/ UNCHANGED locals
       \/ locals' = [locals EXCEPT ![w].raised = "setup"]
    /\ UNCHANGED <<fs, searchable, environ, fs0>>

\* line 1: __import__("setuptools").setup()
Setup(w) ==
    /\ pc[w] = "setup"
    /\ \/ Goto(w, "path") /\ UNCHANGED locals
       \/ Raise(w, "setup")
    /\ UNCHANGED <<fs, searchable, environ, fs0>>

\* lines 6-8: PLUGIN_ID, config_dir, settings_path
ResolvePath(w) ==
    /\ pc[w] = "path"
    /\ Goto(w, "makedirs")
    /\ locals' = [locals EXCEPT ![w].settings_path = SettingsPath(config_dir)]
    /\ UNCHANGED <<fs, searchable, environ, fs0>>

exist_ok_False == FALSE

exist_ok == TRUE

\* os.makedirs on another directory, or followed by a removal of the
\* settings file when it fails
MakedirsVariant(w, name, cleanup) ==
    LET n    == Len(name)
        base == CHOOSE i \in 0..n :
                    /\ PathExists(Prefix(name, i))
                    /\ \A j \in (i + 1)..n : ~PathExists(Prefix(name, j))
        path == locals[w].settings_path
        Failed(after) ==
            /\ Raise(w, "makedirs")
            /\ fs' = IF cleanup
                     THEN [p \in DOMAIN after \ {path} |-> after[p]]
                     ELSE after
    IN /\ pc[w] = "makedirs"
       /\ IF base = n
          THEN IF exist_ok /\ IsDir(name)
               THEN Goto(w, "settings_data") /\ UNCHANGED <<locals, fs>>
               ELSE Failed(fs)
          ELSE IF ~IsDir(Prefix(name, base)) \/ ~Accessible(Prefix(name, base + 1))
          THEN Failed(fs)
          ELSE \E k \in base..n :
                  LET after == [p \in DOMAIN fs \cup {Prefix(name, i) : i \in (base + 1)..k} |->
                                    IF p \in DOMAIN fs THEN fs[p] ELSE Dir]
                  IN IF k = n
                     THEN Goto(w, "settings_data") /\ UNCHANGED locals /\ fs' = after
                     ELSE Failed(after)
       /\ UNCHANGED <<searchable, environ, fs0>>

\* os.makedirs(os.path.dirname(os.path.dirname(settings_path)), ...)
MakedirsOfParent(w) ==
    MakedirsVariant(w, Dirname(Dirname(locals[w].settings_path)), FALSE)

\* os.makedirs in a try block whose handler removes the settings file
MakedirsWithCleanup(w) ==
    MakedirsVariant(w, Dirname(locals[w].settings_path), TRUE)

\* line 9: os.makedirs(os.path.dirname(settings_path), exist_ok=True)
Makedirs(w) ==
    LET name == Dirname(locals[w].settings_path)
        n    == Len(name)
        \* the deepest ancestor that os.path.exists reports
        base == CHOOSE i \in 0..n :
                    /\ PathExists(Prefix(name, i))
                    /\ \A j \in (i + 1)..n : ~PathExists(Prefix(name, j))
    IN /\ pc[w] = "makedirs"
       /\ IF base = n
          THEN \* mkdir(name) raises FileExistsError
               /\ IF exist_ok /\ IsDir(name)
                  THEN Goto(w, "settings_data") /\ UNCHANGED locals
                  ELSE Raise(w, "makedirs")
               /\ UNCHANGED fs
          ELSE IF ~IsDir(Prefix(name, base)) \/ ~Accessible(Prefix(name, base + 1))
          THEN \* NotADirectoryError, PermissionError
               Raise(w, "makedirs") /\ UNCHANGED fs
          ELSE \* mkdir of each missing directory, parents first; any may fail
               \E k \in base..n :
                  /\ fs' = [p \in DOMAIN fs \cup {Prefix(name, i) : i \in (base + 1)..k} |->
                                IF p \in DOMAIN fs THEN fs[p] ELSE Dir]
                  /\ IF k = n
                     THEN Goto(w, "settings_data") /\ UNCHANGED locals
                     ELSE Raise(w, "makedirs")
       /\ UNCHANGED <<searchable, environ, fs0>>

\* lines 11-14: settings_data = {...os.environ.get(...)...}
ReadEnviron(w) ==
    /\ pc[w] = "settings_data"
    /\ Goto(w, "open")
    /\ locals' = [locals EXCEPT ![w].settings_data =
            << <<Chars("GH_APP_ID"), EnvironGet(environ[w], "GH_APP_ID")>>,
               <<Chars("GH_APP_URL"), EnvironGet(environ[w], "GH_APP_URL")>> >>]
    /\ UNCHANGED <<fs, searchable, environ, fs0>>

\* open(settings_path, "r+") or os.open without O_TRUNC: the old text stays
OpenWithoutTruncate(w) ==
    LET path == locals[w].settings_path
    IN /\ pc[w] = "open"
       /\ \/ /\ IsDir(Dirname(path))
             /\ ~IsDir(path)
             /\ fs' = [p \in DOMAIN fs \cup {path} |->
                            IF p = path /\ p \notin DOMAIN fs THEN File(<<>>) ELSE fs[p]]
             /\ Goto(w, "dump")
             /\ locals' = [locals EXCEPT ![w].f =
                    [state |-> "open", path |-> path, pos |-> 0, buffer |-> <<>>]]
          \/ Raise(w, "open") /\ UNCHANGED fs
       /\ UNCHANGED <<searchable, environ, fs0>>

\* line 15: open(settings_path, "w") creates or truncates the file
Open(w) ==
    LET path == locals[w].settings_path
    IN /\ pc[w] = "open"
       /\ \/ /\ IsDir(Dirname(path))
             /\ ~IsDir(path)
             /\ fs' = [p \in DOMAIN fs \cup {path} |->
                            IF p = path THEN File(<<>>) ELSE fs[p]]
             /\ Goto(w, "dump")
             /\ locals' = [locals EXCEPT ![w].f =
                    [state |-> "open", path |-> path, pos |-> 0, buffer |-> <<>>]]
          \/ \* FileNotFoundError, IsADirectoryError, PermissionError, ...
             Raise(w, "open") /\ UNCHANGED fs
       /\ UNCHANGED <<searchable, environ, fs0>>

\* line 16: json.dump(settings_data, f, indent=2) fills the file's buffer
Dump(w) ==
    /\ pc[w] = "dump"
    /\ Goto(w, "close")
    /\ locals' = [locals EXCEPT ![w].f.buffer =
                        @ \o JsonDumps(locals[w].settings_data)]
    /\ UNCHANGED <<fs, searchable, environ, fs0>>

\* end of the with block: the buffer is written at the file's offset and
\* the file closed; a failing write may have stored part of the buffer
Close(w) ==
    LET f == locals[w].f
    IN /\ pc[w] = "close"
       /\ \/ /\ fs' = [fs EXCEPT ![f.path].content = WriteAt(@, f.pos, f.buffer)]
             /\ Goto(w, "done")
             /\ locals' = [locals EXCEPT ![w].f =
                    [f EXCEPT !.state = "closed", !.pos = f.pos + Len(f.buffer),
                              !.buffer = <<>>]]
          \/ \E k \in {j \in 0..MaxShortWrite : j < Len(f.buffer)} :
                /\ fs' = [fs EXCEPT ![f.path].content =
                                WriteAt(@, f.pos, SubSeq(f.buffer, 1, k))]
                /\ pc' = [pc EXCEPT ![w] = "aborted"]
                /\ locals' = [locals EXCEPT ![w].raised = "close",
                                            ![w].f.state = "closed"]
       /\ UNCHANGED <<searchable, environ, fs0>>

Step(w) ==
    \/ Setup(w)
    \/ ResolvePath(w)
    \/ Makedirs(w)
    \/ ReadEnviron(w)
    \/ Open(w)
    \/ Dump(w)
    \/ Close(w)

Next == \E w \in Writers : Invoke(w) \/ Step(w)

Spec == Init /\ [][Next]_vars

NextConcurrent == \E w \in Writers : InvokeConcurrently(w) \/ Step(w)

SpecConcurrent == Init /\ [][NextConcurrent]_vars

NextOnce == \E w \in Writers : InvokeOnce(w) \/ Step(w)

\* one run from any of the initial trees; an invoked run is a sequential
\* process that the scheduler keeps running
FairSpec == Init /\ [][NextOnce]_vars /\ \A w \in Writers : WF_vars(Step(w))

(* ------------------------------ properties ----------------------------- *)

Names == {"GH_APP_ID", "GH_APP_URL"}

\* the directories above the settings file, from the filesystem root down
DirsOnPath(from) == {Prefix(SettingsFile, i) : i \in from..(Len(SettingsFile) - 1)}

Absent == [type |-> "absent"]
Entry(tree, p) == IF p \in DOMAIN tree THEN tree[p] ELSE Absent

Running(w) == pc[w] \notin {"idle", "done", "aborted"}

\* C1: after a successful run the target file parses as a mapping with
\* exactly the keys GH_APP_ID and GH_APP_URL, each null iff its variable is
\* unset and otherwise the variable's string unchanged.
DocumentMatchesEnvironment ==
    \A w \in Writers :
        pc[w] = "done" =>
            /\ SettingsFile \in DOMAIN fs
            /\ fs[SettingsFile].type = "file"
            /\ LET m == JsonLoads(fs[SettingsFile].content)
               IN /\ m.ok
                  /\ DOMAIN m.val = {Chars(n) : n \in Names}
                  /\ \A n \in Names :
                        /\ (m.val[Chars(n)] = None) <=> (n \notin DOMAIN environ[w])
                        /\ n \in DOMAIN environ[w] => m.val[Chars(n)] = Str(environ[w][n])

\* a run has finished with GH_APP_ID unset and GH_APP_URL a string that
\* needs escaping
DocumentWritten ==
    \E w \in Writers :
        /\ pc[w] = "done"
        /\ "GH_APP_ID" \notin DOMAIN environ[w]
        /\ "GH_APP_URL" \in DOMAIN environ[w]
        /\ environ[w]["GH_APP_URL"] = <<"\"">>

\* C2: after a successful run the file's text is exactly the new document
\* of that run's environment, whatever the file held before.
OverwritesFully ==
    \A w \in Writers :
        pc[w] = "done" =>
            /\ SettingsFile \in DOMAIN fs
            /\ fs[SettingsFile] =
                File(JsonDumps(<< <<Chars("GH_APP_ID"),
                                    IF "GH_APP_ID" \in DOMAIN environ[w]
                                    THEN Str(environ[w]["GH_APP_ID"]) ELSE None>>,
                                  <<Chars("GH_APP_URL"),
                                    IF "GH_APP_URL" \in DOMAIN environ[w]
                                    THEN Str(environ[w]["GH_APP_URL"]) ELSE None>> >>))

\* a run has finished over a file that held a longer, different text
LongerFileOverwritten ==
    \E w \in Writers :
        /\ pc[w] = "done"
        /\ SettingsFile \in DOMAIN fs0
        /\ fs0[SettingsFile].type = "file"
        /\ Len(fs0[SettingsFile].content) > Len(fs[SettingsFile].content)

\* C3: once the directory-creation step is passed, and whenever the file
\* has been opened, every directory on the file's path exists; after a
\* successful run the file exists too.
DirectoriesBeforeFile ==
    \A w \in Writers :
        /\ (pc[w] \in {"settings_data", "open", "dump", "close", "done"}
                \/ locals[w].f.state # "unbound")
            => \A d \in DirsOnPath(0) : Entry(fs, d) = Dir
        /\ pc[w] = "done" => Entry(fs, SettingsFile).type = "file"

\* a run has finished that found the configuration root without "lab"
MissingTreeCreated ==
    \E w \in Writers :
        /\ pc[w] = "done"
        /\ config_dir \in DOMAIN fs0
        /\ DirsOnPath(Len(config_dir) + 1) \cap DOMAIN fs0 = {}

\* C4: when the target directory is already present (and may be looked up,
\* as it may after a run that succeeded), the directory-creation step raises
\* nothing and leaves the filesystem as it is.
MakedirsIdempotent ==
    [][\A w \in Writers :
          (/\ pc[w] = "makedirs"
           /\ pc'[w] # "makedirs"
           /\ searchable
           /\ Entry(fs, Dirname(SettingsFile)) = Dir)
          => /\ pc'[w] = "settings_data"
             /\ locals'[w].raised = ""
             /\ fs' = fs]_vars

\* a later run has passed directory creation over the tree and the file an
\* earlier run left
SecondRunPassedMakedirs ==
    \E w \in Writers :
        /\ pc[w] = "settings_data"
        /\ Entry(fs0, Dirname(SettingsFile)) = Dir
        /\ Entry(fs0, SettingsFile).type = "file"
        /\ fs0[SettingsFile].content # PriorSettings
        /\ fs = fs0

\* C5: a failing step ends the run at once in the aborted state, named
\* after that step; nothing of the run happens afterwards (the only step
\* from "aborted" is a new invocation, which finds the filesystem as the
\* failure left it) and no directory is ever removed.
FailureAborts ==
    [][\A w \in Writers :
          /\ (locals'[w].raised # "") <=> (pc'[w] = "aborted")
          /\ (pc[w] # "aborted" /\ pc'[w] = "aborted") => locals'[w].raised = pc[w]
          /\ pc[w] = "aborted" =>
                /\ fs' = fs
                /\ pc'[w] \in {"aborted", "setup"}
          /\ \A p \in DOMAIN fs : fs[p] = Dir => Entry(fs', p) = Dir]_vars

\* directory creation failed after it had created a directory
AbortedAfterPartialMakedirs ==
    \E w \in Writers :
        /\ pc[w] = "aborted"
        /\ locals[w].raised = "makedirs"
        /\ \E p \in DOMAIN fs \ DOMAIN fs0 : fs[p] = Dir

\* C9: when directory creation fails the file is never opened and the
\* settings file is as the run found it; only a failure of the write that
\* follows the truncating open leaves the file changed in an aborted run.
FailedMakedirsKeepsFile ==
    \A w \in Writers :
        /\ locals[w].raised = "makedirs" =>
                /\ locals[w].f = NoFile
                /\ Entry(fs, SettingsFile) = Entry(fs0, SettingsFile)
        /\ (pc[w] = "aborted" /\ Entry(fs, SettingsFile) # Entry(fs0, SettingsFile))
                => locals[w].raised = "close"

\* directory creation failed while a settings file existed
MakedirsFailedOverExistingFile ==
    \E w \in Writers :
        /\ pc[w] = "aborted"
        /\ locals[w].raised = "makedirs"
        /\ Entry(fs, SettingsFile) = File(PriorSettings)

\* C10: until setup() has returned, and for good when it has raised, the
\* writer has done nothing: no path resolved, no environment read, no file
\* opened, the filesystem as the invocation found it.
SetupFirst ==
    \A w \in Writers :
        (pc[w] = "setup" \/ locals[w].raised = "setup") =>
            /\ fs = fs0
            /\ locals[w].settings_path = <<>>
            /\ locals[w].settings_data = <<>>
            /\ locals[w].f = NoFile

\* setup() raised in a run that found the directory tree missing
SetupRaised ==
    \E w \in Writers :
        /\ pc[w] = "aborted"
        /\ locals[w].raised = "setup"
        /\ DirsOnPath(Len(config_dir) + 1) \cap DOMAIN fs = {}

\* the document json.dump writes for environment e
Document(e) ==
    JsonDumps(<< <<Chars("GH_APP_ID"),
                   IF "GH_APP_ID" \in DOMAIN e THEN Str(e["GH_APP_ID"]) ELSE None>>,
                 <<Chars("GH_APP_URL"),
                   IF "GH_APP_URL" \in DOMAIN e THEN Str(e["GH_APP_URL"]) ELSE None>> >>)

\* C6: once two concurrent invocations have both finished, the file holds
\* the complete document of one of them, never a mixture and never an empty
\* or partial document.
LastWriterWins ==
    (\A w \in Writers : pc[w] = "done") =>
        \E w \in Writers : Entry(fs, SettingsFile) = File(Document(environ[w]))

\* what the writer never does, whatever it may create: it resolves one
\* path whatever the environment holds, and it only reads the environment
PathAndEnvironmentFixed ==
    \A w \in Writers :
        /\ locals'[w].settings_path \in {<<>>, SettingsFile}
        /\ Running(w) => environ'[w] = environ[w]

\* every path but those in allowed is left as it is, and a directory in
\* allowed is at most created
OnlyTouches(allowed) ==
    /\ \A p \in (DOMAIN fs \cup DOMAIN fs') \ allowed : Entry(fs', p) = Entry(fs, p)
    /\ \A p \in allowed \ {SettingsFile} :
            \/ Entry(fs', p) = Entry(fs, p)
            \/ Entry(fs, p) = Absent /\ Entry(fs', p) = Dir

\* C7 as stated: the only filesystem changes are the creation of lab,
\* lab/user-settings and lab/user-settings/jupyter2repo and the creation or
\* overwrite of plugin.json; the path is fixed and the environment only read.
OnlyPluginTreeTouched ==
    [][/\ OnlyTouches(DirsOnPath(Len(config_dir) + 1) \cup {SettingsFile})
       /\ PathAndEnvironmentFixed]_vars

\* C7 as amended: the directories the writer may create are all the missing
\* ones on the path, the configuration root and its parents included.
OnlyPathToPluginTouched ==
    [][/\ OnlyTouches(DirsOnPath(1) \cup {SettingsFile})
       /\ PathAndEnvironmentFixed]_vars

\* a run has finished that found the configuration root missing, next to
\* one whose environment sets both variables
RootCreated ==
    \E w \in Writers :
        /\ pc[w] = "done"
        /\ config_dir \notin DOMAIN fs0
        /\ DOMAIN environ[w] = Names \cup {"HOME"}

Rank(label) ==
    CASE label = "idle"          -> 0
      [] label = "setup"         -> 1
      [] label = "path"          -> 2
      [] label = "makedirs"      -> 3
      [] label = "settings_data" -> 4
      [] label = "open"          -> 5
      [] label = "dump"          -> 6
      [] label = "close"         -> 7
      [] label \in Terminal      -> 8

\* C8: an invoked run always reaches "done" or "aborted"; every step moves
\* it forward in the order of the statements, so none is passed twice;
\* "done" means the directories exist and the file holds the document, and
\* "aborted" that setup() or one of the filesystem steps raised.
RunsToCompletion ==
    /\ \A w \in Writers : Running(w) ~> (pc[w] \in Terminal)
    /\ [][\A w \in Writers :
            \/ pc'[w] = pc[w] /\ locals'[w] = locals[w]
            \/ Rank(pc'[w]) > Rank(pc[w])
            \/ pc[w] \in Terminal /\ pc'[w] = "setup"]_vars
    /\ [](\A w \in Writers :
            pc[w] = "done" =>
                /\ locals[w].raised = ""
                /\ \A d \in DirsOnPath(0) : Entry(fs, d) = Dir
                /\ Entry(fs, SettingsFile) = File(Document(environ[w])))
    /\ [](\A w \in Writers :
            pc[w] = "aborted" => locals[w].raised \in {"setup", "makedirs", "open", "close"})

\* a run has ended in "aborted" at the open: plugin.json is a directory
AbortedAtOpen ==
    \E w \in Writers :
        /\ pc[w] = "aborted"
        /\ locals[w].raised = "open"
        /\ Entry(fs, SettingsFile) = Dir

====
